---- MODULE Spec2Model ----
(***************************************************************************)
(* Model of src/vdj_region_gen.py: the V/J boundary trimming functions     *)
(* (v_trimming, j_trimming) and the per-table assembly (full_region_gen).  *)
(*                                                                         *)
(* An amino-acid string is a sequence of one-character strings, so that    *)
(* slicing, splitting and joining are computed position by position.       *)
(*                                                                         *)
(* Three specifications share the variables:                               *)
(*   SpecJ  j_trimming applied to every bounded J segment;                 *)
(*   SpecV  v_trimming applied (twice, in two interpreter runs) to every   *)
(*          bounded V segment / CDR3 pair;                                 *)
(*   Spec   full_region_gen applied to every bounded input table.          *)
(***************************************************************************)
EXTENDS Integers, Sequences, FiniteSets, TLC

VARIABLES
    j_seq,              \* SpecJ: the argument of j_trimming
    j_runs,             \* SpecJ: outcomes of the calls made so far
    v_seq,              \* SpecV: first argument of v_trimming
    cdr3_seq,           \* SpecV: second argument of v_trimming
    aligner_first,      \* SpecV: which qualifying co-optimal alignment the
                        \*        alignment library lists first for this input
    v_runs,             \* SpecV: outcomes of the calls made so far
    vj,                 \* Spec: the input table of full_region_gen
    i,                  \* Spec: number of rows the loop has processed
    v_trim_list,        \* Spec: local list of full_region_gen
    j_trim_list,        \* Spec: local list of full_region_gen
    calls,              \* Spec: history of the return path each call took
    dropout_threading,  \* Spec: the quarantine table written to csv
    result,             \* Spec: the returned table
    pc                  \* Spec: "loop" or "done"

vars == <<j_seq, j_runs, v_seq, cdr3_seq, aligner_first, v_runs,
          vj, i, v_trim_list, j_trim_list, calls, dropout_threading, result, pc>>

(***************************************************************************)
(* Bounds of the model.                                                    *)
(***************************************************************************)
MaxJLen == 8
MaxJLenW == 5
MaxVLen == 4
MaxCLen == 3
MaxLongCLen == 2
MaxTailLen == 1
MaxRuns == 2
MaxRows == 2

(***************************************************************************)
(* Strings.                                                                *)
(***************************************************************************)
Strings(alphabet, lo, hi) ==
    UNION {[1..n -> alphabet] : n \in lo..hi}

SetMax(S) == CHOOSE x \in S : \A y \in S : y <= x
SetMin(S) == CHOOSE x \in S : \A y \in S : x <= y

\* s[from:] with a 0-based Python index from >= 0
SliceFrom(s, from) == SubSeq(s, from + 1, Len(s))

\* 1-based positions at which m occurs contiguously in s
Occurrences(s, m) ==
    {p \in 1..(Len(s) - Len(m) + 1) : SubSeq(s, p, p + Len(m) - 1) = m}

\* the sentinel the code uses for a failed trim: the two-character string 'NA'
NA == <<"N", "A">>

(***************************************************************************)
(* j_trimming                                                              *)
(***************************************************************************)
\* j_dict lookup with the except branch: F -> 2, W -> 2, G -> 1, other -> 0
j_dict(n) ==
    IF n \in {"F", "W"} THEN "2" ELSE IF n = "G" THEN "1" ELSE "0"

value_string(s) == [k \in 1..Len(s) |-> j_dict(s[k])]

\* difflib.SequenceMatcher(None, a, b).find_longest_match() for strings with
\* no junk: the longest block a[i:i+k] == b[j:j+k]; of those the one
\* starting earliest in a, and of those the one starting earliest in b.
\* Indices a, b are 0-based as in the Match tuple.
BlockAt(a, b, bi, bj, k) ==
    /\ bi + k <= Len(a)
    /\ bj + k <= Len(b)
    /\ SubSeq(a, bi + 1, bi + k) = SubSeq(b, bj + 1, bj + k)

LongestBlockFrom(a, b, size) ==
    LET besti == SetMin({bi \in 0..(Len(a) - size) :
                            \E bj \in 0..(Len(b) - size) : BlockAt(a, b, bi, bj, size)})
    IN  [a |-> besti,
         b |-> SetMin({bj \in 0..(Len(b) - size) : BlockAt(a, b, besti, bj, size)}),
         size |-> size]

find_longest_match(a, b) ==
    LET size == SetMax({k \in 0..Len(b) :
                           \E bi \in 0..Len(a), bj \in 0..Len(b) : BlockAt(a, b, bi, bj, k)})
    IN  IF size = 0 THEN [a |-> 0, b |-> 0, size |-> 0]
        ELSE LongestBlockFrom(a, b, size)

first_pattern == <<"2", "1", "0", "1">>
second_pattern == <<"2", "1", "1", "1">>

\* the start of the retained J segment relative to the match
j_string_start(match) == match.a + 1

j_trimming_wrong_order(s) ==
    LET m2 == find_longest_match(value_string(s), second_pattern)
        m1 == find_longest_match(value_string(s), first_pattern)
    IN  IF m2.size = 4
        THEN [ok |-> TRUE, ret |-> SliceFrom(s, j_string_start(m2))]
        ELSE IF m1.size = 4
             THEN [ok |-> TRUE, ret |-> SliceFrom(s, j_string_start(m1))]
             ELSE [ok |-> FALSE, ret |-> NA]

\* ok records which return path was taken; ret is the returned string
j_trimming(s) ==
    LET m1 == find_longest_match(value_string(s), first_pattern)
        m2 == find_longest_match(value_string(s), second_pattern)
    IN  IF m1.size = 4
        THEN [ok |-> TRUE, ret |-> SliceFrom(s, j_string_start(m1))]
        ELSE IF m2.size = 4
             THEN [ok |-> TRUE, ret |-> SliceFrom(s, j_string_start(m2))]
             ELSE [ok |-> FALSE, ret |-> NA]

(***************************************************************************)
(* v_trimming, method 1: longest common substring starting with 'C'.       *)
(***************************************************************************)
TailWindow == 20
MinMatchLen == 2

\* v_seq[-20:]
v_tail(v) ==
    IF Len(v) <= TailWindow THEN v
    ELSE SubSeq(v, Len(v) - TailWindow + 1, Len(v))

\* the final value of k in the while loop started at str1[p1], str2[p2] (1-based)
RECURSIVE RunLen(_, _, _, _)
RunLen(str1, p1, str2, p2) ==
    IF p1 <= Len(str1) /\ p2 <= Len(str2) /\ str1[p1] = str2[p2]
    THEN 1 + RunLen(str1, p1 + 1, str2, p2 + 1)
    ELSE 0

\* the set built by the two for loops: str1[i:i+k] for every k the while loop reaches
all_common_substrings(str1, str2) ==
    UNION {{SubSeq(str1, p1, p1 + k - 1) : k \in 1..RunLen(str1, p1, str2, p2)} :
              <<p1, p2>> \in (1..Len(str1)) \X (1..Len(str2))}

filter_substrings_any_start(substrings) ==
    {substring \in substrings : Len(substring) >= MinMatchLen}

filter_substrings(substrings) ==
    {substring \in substrings : substring[1] = "C" /\ Len(substring) >= MinMatchLen}

\* max(possible_substrings, key=len) returns the first longest element of the
\* list; the list is list(set), whose order follows the string hashes of the
\* interpreter run.  Every longest element is first under some hash seed.
max_by_len(possible_substrings) ==
    LET longest == SetMax({Len(x) : x \in possible_substrings})
    IN  {x \in possible_substrings : Len(x) = longest}

\* str.find: 1-based start of the leftmost occurrence of sep in s, 0 if none
Find(s, sep) ==
    IF Occurrences(s, sep) = {} THEN 0 ELSE SetMin(Occurrences(s, sep))

\* str.split(sep), sep non-empty: left to right, non-overlapping
RECURSIVE split(_, _)
split(s, sep) ==
    LET p == Find(s, sep)
    IN  IF p = 0 THEN <<s>>
        ELSE <<SubSeq(s, 1, p - 1)>> \o split(SubSeq(s, p + Len(sep), Len(s)), sep)

\* sep.join(parts)
RECURSIVE join(_, _)
join(sep, parts) ==
    IF parts = <<>> THEN <<>>
    ELSE IF Len(parts) = 1 THEN parts[1]
    ELSE parts[1] \o sep \o join(sep, Tail(parts))

\* the variant of scripts/vdj_region_gen.py: ''.join(v_seq.split(match_seq)[:-1])
trim_at_dropping_matches(v, match_seq) ==
    LET v_seq_as_parts == SubSeq(split(v, match_seq), 1, Len(split(v, match_seq)) - 1)
    IN  join(<<>>, v_seq_as_parts)

\* match_seq.join(v_seq.split(match_seq)[:-1])
trim_at(v, match_seq) ==
    LET v_seq_as_parts == SubSeq(split(v, match_seq), 1, Len(split(v, match_seq)) - 1)
    IN  join(match_seq, v_seq_as_parts)

(***************************************************************************)
(* v_trimming, method 2: global pairwise alignment (Bio.Align), affine     *)
(* gaps.  Scores are kept in half units so that -0.5 is an integer.        *)
(***************************************************************************)
match_score == 2
mismatch_score == -1
open_gap_score == -2
extend_gap_score_halves == -1
threshold == 0

PairScore(x, y) == IF x = y THEN 2 * match_score ELSE 2 * mismatch_score
GapOpen == 2 * open_gap_score
GapExtend == extend_gap_score_halves

\* score of one gap of n letters (0 for no gap)
GapScore(n) == IF n = 0 THEN 0 ELSE GapOpen + (n - 1) * GapExtend

\* Cells (ti, qj), 0 <= ti <= Len(t), 0 <= qj <= Len(q), are numbered
\* ti * (Len(q) + 1) + qj and filled from the last cell down; the table is the
\* sequence of filled cells, last cell first.
CellAt(t, q, tbl, ti, qj) ==
    tbl[(Len(t) + 1) * (Len(q) + 1) - (ti * (Len(q) + 1) + qj)]

\* best score of aligning t[ti:] with q[qj:] when the column before was an
\* aligned pair (M), a letter of t against a gap (X) or a letter of q against
\* a gap (Y)
CellValue(t, q, tbl, ti, qj) ==
    LET Options(prev) ==
            (IF ti < Len(t) /\ qj < Len(q)
             THEN {PairScore(t[ti + 1], q[qj + 1]) + CellAt(t, q, tbl, ti + 1, qj + 1).M}
             ELSE {})
            \cup
            (IF ti < Len(t)
             THEN {(IF prev = "X" THEN GapExtend ELSE GapOpen) + CellAt(t, q, tbl, ti + 1, qj).X}
             ELSE {})
            \cup
            (IF qj < Len(q)
             THEN {(IF prev = "Y" THEN GapExtend ELSE GapOpen) + CellAt(t, q, tbl, ti, qj + 1).Y}
             ELSE {})
    IN  IF ti = Len(t) /\ qj = Len(q) THEN [M |-> 0, X |-> 0, Y |-> 0]
        ELSE [M |-> SetMax(Options("M")),
              X |-> SetMax(Options("X")),
              Y |-> SetMax(Options("Y"))]

RECURSIVE FillTable(_, _, _, _)
FillTable(t, q, c, tbl) ==
    IF c < 0 THEN tbl
    ELSE FillTable(t, q, c - 1,
                   Append(tbl, CellValue(t, q, tbl, c \div (Len(q) + 1), c % (Len(q) + 1))))

AlignTable(t, q) == FillTable(t, q, (Len(t) + 1) * (Len(q) + 1) - 1, <<>>)

\* alignment.score of every alignment the global aligner returns (half units)
OptimalScore(t, q, tbl) == CellAt(t, q, tbl, 0, 0).M

\* alignment.aligned[0][0][0] over the alignments returned: the 0-based
\* index in t of the first letter that is aligned to a letter of q
AlignedStarts(t, q, tbl) ==
    {ti \in 0..(Len(t) - 1) :
        \E qj \in 0..(Len(q) - 1) :
            GapScore(ti) + GapScore(qj) + PairScore(t[ti + 1], q[qj + 1])
              + CellAt(t, q, tbl, ti + 1, qj + 1).M = OptimalScore(t, q, tbl)}

\* an optimal alignment with no aligned pair makes aligned[0][0] raise
NoAlignedBlock(t, q, tbl) ==
    GapScore(Len(t)) + GapScore(Len(q)) = OptimalScore(t, q, tbl)

alignment_qualifies_any_start(v_segment, start, score) ==
    score >= 2 * threshold

\* the condition of the filtered_alignments comprehension
alignment_qualifies(v_segment, start, score) ==
    /\ v_segment[start + 1] = "C"
    /\ score >= 2 * threshold

\* the values of aligned[0][0][0] over filtered_alignments, given the table
filtered_starts_of(v_segment, cdr3, tbl) ==
    IF NoAlignedBlock(v_segment, cdr3, tbl) THEN {}
    ELSE {start \in AlignedStarts(v_segment, cdr3, tbl) :
             alignment_qualifies(v_segment, start, OptimalScore(v_segment, cdr3, tbl))}

\* aligner.align(v_segment, cdr3_seq) followed by the comprehension
filtered_starts(v_segment, cdr3) ==
    UNION {filtered_starts_of(v_segment, cdr3, tbl) :
              tbl \in {AlignTable(v_segment, cdr3)}}

possible_substrings_whole_v(v, cdr3) ==
    filter_substrings(all_common_substrings(v, cdr3))

possible_substrings(v, cdr3) ==
    filter_substrings(all_common_substrings(v_tail(v), cdr3))

\* The alignment library is a deterministic function of its input, but the
\* source does not fix which of several co-optimal alignments comes first:
\* best_alignment = max(filtered_alignments, key=score) is the first of them.
\* -1 stands for an empty filtered_alignments (max raises, 'NA' is returned).
AlignerFirstChoices(v, cdr3) ==
    IF possible_substrings(v, cdr3) # {} THEN {-1}
    ELSE UNION {IF starts = {} THEN {-1} ELSE starts :
                   starts \in {filtered_starts(v_tail(v), cdr3)}}

\* The outcomes of one call: tier is the method that decided, match the
\* string v_seq is split on, ret the returned string, ok the return path.
v_trimming_from(v, possible, first) ==
    IF possible # {}
    THEN {[tier |-> 1, match |-> match_seq, ret |-> trim_at(v, match_seq), ok |-> TRUE] :
             match_seq \in max_by_len(possible)}
    ELSE IF first = -1
         THEN {[tier |-> 2, match |-> <<>>, ret |-> NA, ok |-> FALSE]}
         ELSE {[tier |-> 2, match |-> new_match_seq,
                ret |-> trim_at(v, new_match_seq), ok |-> TRUE] :
                  new_match_seq \in {SliceFrom(v_tail(v), first)}}

v_trimming(v, cdr3, first) ==
    UNION {v_trimming_from(v, possible, first) :
              possible \in {possible_substrings(v, cdr3)}}

(***************************************************************************)
(* SpecJ: j_trimming on every J segment of length 1..MaxJLen.              *)
(***************************************************************************)
JAlphabet == {"F", "W", "G", "A"}
JCoreAlphabet == {"F", "G", "A"}
JSeqs == Strings(JAlphabet, 1, MaxJLenW) \cup Strings(JCoreAlphabet, 1, MaxJLen)

IdleJ == /\ j_seq = <<>>
         /\ j_runs = <<>>
IdleV == /\ v_seq = <<>>
         /\ cdr3_seq = <<>>
         /\ aligner_first = -1
         /\ v_runs = <<>>
IdleTable == /\ vj = <<>>
             /\ i = 0
             /\ v_trim_list = <<>>
             /\ j_trim_list = <<>>
             /\ calls = <<>>
             /\ dropout_threading = <<>>
             /\ result = <<>>
             /\ pc = "idle"

varsJ == <<j_seq, j_runs>>
varsV == <<v_seq, cdr3_seq, aligner_first, v_runs>>
varsTable == <<vj, i, v_trim_list, j_trim_list, calls, dropout_threading, result, pc>>

InitJ == /\ j_seq \in JSeqs
         /\ j_runs = <<>>
         /\ IdleV
         /\ IdleTable

CallJ == /\ j_seq # <<>>
         /\ j_runs = <<>>
         /\ j_runs' = <<j_trimming(j_seq)>>
         /\ UNCHANGED <<j_seq, varsV, varsTable>>

NextJ == CallJ

SpecJ == InitJ /\ [][NextJ]_vars

(***************************************************************************)
(* Spec: full_region_gen on every table of 1..MaxRows rows.                *)
(***************************************************************************)
RowV == {<<"N", "A", "C", "A">>, <<"A", "C", "C", "A">>,
         <<"N", "C", "A", "N">>, <<"A", "N", "N">>}
RowCDR3 == {<<"C", "A">>, <<"C", "N", "A", "N">>}
RowJ == {<<"F", "G", "A", "G">>, <<"W", "G", "G", "G", "A">>, <<"F", "G", "F", "G">>}
Rows == [V_AA_Seq : RowV, CDR3 : RowCDR3, J_AA_Seq : RowJ]
Tables == UNION {[1..n -> Rows] : n \in 1..MaxRows}

\* row k of vj after the two trimmed columns are assigned
with_trims(k) ==
    [index |-> k,
     V_AA_Seq |-> vj[k].V_AA_Seq, CDR3 |-> vj[k].CDR3, J_AA_Seq |-> vj[k].J_AA_Seq,
     V_AA_Trimmed |-> v_trim_list[k], J_AA_Trimmed |-> j_trim_list[k]]

in_dropout_both_failed(row) ==
    row.V_AA_Trimmed = NA /\ row.J_AA_Trimmed = NA

\* the mask of dropout_threading
in_dropout(row) ==
    row.V_AA_Trimmed = NA \/ row.J_AA_Trimmed = NA

\* the mask of the returned table
in_result(row) ==
    row.V_AA_Trimmed # NA /\ row.J_AA_Trimmed # NA

V_CDR3_J_Sequence_untrimmed_v(row) ==
    row.V_AA_Seq \o row.CDR3 \o row.J_AA_Trimmed

V_CDR3_J_Sequence(row) ==
    row.V_AA_Trimmed \o row.CDR3 \o row.J_AA_Trimmed

with_sequence(row) ==
    [index |-> row.index,
     V_AA_Seq |-> row.V_AA_Seq, CDR3 |-> row.CDR3, J_AA_Seq |-> row.J_AA_Seq,
     V_AA_Trimmed |-> row.V_AA_Trimmed, J_AA_Trimmed |-> row.J_AA_Trimmed,
     V_CDR3_J_Sequence |-> V_CDR3_J_Sequence(row)]

Init == /\ vj \in Tables
        /\ i = 0
        /\ v_trim_list = <<>>
        /\ j_trim_list = <<>>
        /\ calls = <<>>
        /\ dropout_threading = <<>>
        /\ result = <<>>
        /\ pc = "loop"
        /\ IdleJ
        /\ IdleV

\* one pass of the for loop.  The rows are non-empty strings, on which
\* neither call raises, so the two except branches are not taken.
Iterate ==
    /\ pc = "loop"
    /\ i < Len(vj)
    /\ \E first \in AlignerFirstChoices(vj[i + 1].V_AA_Seq, vj[i + 1].CDR3) :
       \E v_out \in v_trimming(vj[i + 1].V_AA_Seq, vj[i + 1].CDR3, first) :
       \E j_out \in {j_trimming(vj[i + 1].J_AA_Seq)} :
           /\ v_trim_list' = Append(v_trim_list, v_out.ret)
           /\ j_trim_list' = Append(j_trim_list, j_out.ret)
           /\ calls' = Append(calls, [v_ok |-> v_out.ok, j_ok |-> j_out.ok])
    /\ i' = i + 1
    /\ UNCHANGED <<vj, dropout_threading, result, pc, varsJ, varsV>>

\* the statements after the loop
Finish ==
    /\ pc = "loop"
    /\ i = Len(vj)
    /\ dropout_threading' = SelectSeq([k \in 1..Len(vj) |-> with_trims(k)], in_dropout)
    /\ result' = [k \in 1..Len(SelectSeq([n \in 1..Len(vj) |-> with_trims(n)], in_result)) |->
                     with_sequence(SelectSeq([n \in 1..Len(vj) |-> with_trims(n)], in_result)[k])]
    /\ pc' = "done"
    /\ UNCHANGED <<vj, i, v_trim_list, j_trim_list, calls, varsJ, varsV>>

Next == Iterate \/ Finish

Spec == Init /\ [][Next]_vars

(***************************************************************************)
(* Claims about j_trimming (checked under SpecJ).                          *)
(***************************************************************************)
\* the digit string of the claims, written out independently of j_dict
ClaimDigits(s) ==
    [k \in 1..Len(s) |->
        CASE s[k] = "F" -> "2"
          [] s[k] = "W" -> "2"
          [] s[k] = "G" -> "1"
          [] OTHER -> "0"]

\* 1-based starts of an F/W-G-X-G motif in s, X any residue
MotifStarts(s) ==
    {p \in 1..(Len(s) - 3) :
        s[p] \in {"F", "W"} /\ s[p + 1] = "G" /\ s[p + 3] = "G"}

\* C5: j_trimming fails iff the digit string holds neither "2101" nor "2111";
\* otherwise it returns j_seq[i+1:], i the leftmost start of "2101" when
\* "2101" occurs at all, and the leftmost start of "2111" only when it does not.
C5_JTrimmingByPatternPrecedence ==
    \A k \in 1..Len(j_runs) :
        LET d == ClaimDigits(j_seq)
            O1 == Occurrences(d, <<"2", "1", "0", "1">>)
            O2 == Occurrences(d, <<"2", "1", "1", "1">>)
            p == IF O1 # {} THEN SetMin(O1) ELSE SetMin(O2)
        IN  IF O1 = {} /\ O2 = {}
            THEN ~j_runs[k].ok /\ j_runs[k].ret = NA
            ELSE j_runs[k].ok /\ j_runs[k].ret = SubSeq(j_seq, p + 1, Len(j_seq))

\* a call has returned on a segment in which "2111" starts before any "2101"
C5_Witness ==
    /\ Len(j_runs) = 1
    /\ LET d == ClaimDigits(j_seq)
           O1 == Occurrences(d, <<"2", "1", "0", "1">>)
           O2 == Occurrences(d, <<"2", "1", "1", "1">>)
       IN  O1 # {} /\ O2 # {} /\ SetMin(O2) < SetMin(O1)
    /\ j_runs[1].ok

\* C9: every J segment holding an F/W-G-X-G motif (X any residue) is trimmed
\* successfully, to the suffix starting one position after such a motif's start.
C9_EveryMotifIsFound ==
    \A k \in 1..Len(j_runs) :
        MotifStarts(j_seq) # {} =>
            /\ j_runs[k].ok
            /\ \E p \in MotifStarts(j_seq) :
                   j_runs[k].ret = SubSeq(j_seq, p + 1, Len(j_seq))

(***************************************************************************)
(* SpecV: v_trimming on every bounded V segment / CDR3 pair, called in     *)
(* MaxRuns interpreter runs (each run has its own string hash seed).       *)
(***************************************************************************)
VAlphabet == {"C", "A", "N"}
Pad == [k \in 1..(TailWindow - 1) |-> "N"]
ShortV == Strings(VAlphabet, 1, MaxVLen)
\* segments longer than the window: a head of the minimal match length, the
\* pad, and a short tail
LongV == {head \o Pad \o tail : head \in Strings(VAlphabet, MinMatchLen, MinMatchLen),
                                tail \in Strings(VAlphabet, 0, MaxTailLen)}
CDR3Seqs == Strings(VAlphabet, 1, MaxCLen)
LongCDR3Seqs == Strings(VAlphabet, 1, MaxLongCLen)
VInputs == (ShortV \X CDR3Seqs) \cup (LongV \X LongCDR3Seqs)

InitV == /\ \E input \in VInputs : v_seq = input[1] /\ cdr3_seq = input[2]
         /\ aligner_first \in AlignerFirstChoices(v_seq, cdr3_seq)
         /\ v_runs = <<>>
         /\ IdleJ
         /\ IdleTable

CallV == /\ v_seq # <<>>
         /\ Len(v_runs) < MaxRuns
         /\ \E outcome \in v_trimming(v_seq, cdr3_seq, aligner_first) :
                v_runs' = Append(v_runs, outcome)
         /\ UNCHANGED <<v_seq, cdr3_seq, aligner_first, varsJ, varsTable>>

NextV == CallV

SpecV == InitV /\ [][NextV]_vars

(***************************************************************************)
(* Claims about v_trimming (checked under SpecV).                          *)
(***************************************************************************)
\* the non-empty contiguous substrings of s
Substrings(s) ==
    {SubSeq(s, lo, hi) : <<lo, hi>> \in {x \in (1..Len(s)) \X (1..Len(s)) : x[1] <= x[2]}}

\* s occurs in v entirely within its last 20 characters
OccursInLast20(v, s) ==
    \E p \in Occurrences(v, s) : p > Len(v) - 20

\* the candidate set of the exact-match tier, as the claim words it
ExactCandidates(v, cdr3) ==
    {s \in Substrings(cdr3) : s[1] = "C" /\ Len(s) >= 2 /\ OccursInLast20(v, s)}

\* C4 as claimed: on success the trimmed V is the part of v_seq before the
\* first occurrence of the matched substring.  Stated for the calls the exact
\* tier decides, where no library order enters the result.
C4_CutAtFirstOccurrence ==
    \A k \in 1..Len(v_runs) :
        v_runs[k].ok /\ v_runs[k].tier = 1 =>
            v_runs[k].ret = SubSeq(v_seq, 1, SetMin(Occurrences(v_seq, v_runs[k].match)) - 1)

\* C4 as amended: on success v_seq = r + m + t, where r is the trimmed V, m the
\* matched substring and m does not occur in t: the cut is at the last
\* occurrence that str.split finds, and earlier occurrences stay in r.
C4_CutAtLastSplitOccurrence ==
    \A k \in 1..Len(v_runs) :
        v_runs[k].ok =>
            LET r == v_runs[k].ret
                m == v_runs[k].match
            IN  /\ Len(r) + Len(m) <= Len(v_seq)
                /\ SubSeq(v_seq, 1, Len(r)) = r
                /\ SubSeq(v_seq, Len(r) + 1, Len(r) + Len(m)) = m
                /\ Occurrences(SubSeq(v_seq, Len(r) + Len(m) + 1, Len(v_seq)), m) = {}

\* a successful call whose matched substring occurs more than once in v_seq
C4_Witness ==
    /\ Len(v_runs) >= 1
    /\ v_runs[1].ok
    /\ v_runs[1].tier = 1
    /\ Cardinality(Occurrences(v_seq, v_runs[1].match)) >= 2
    /\ v_runs[1].ret # <<>>

\* C7: every two runs of v_trimming on the same v_seq and cdr3 return the
\* same string.
C7_RunsAgree ==
    \A k1, k2 \in 1..Len(v_runs) : v_runs[k1].ret = v_runs[k2].ret

\* C8: the candidates of the exact tier are exactly the C-starting strings of
\* length >= 2 common to the last 20 characters of v_seq and cdr3; if there are
\* any, the exact tier decides with a longest one, otherwise the alignment
\* tier decides.
C8_ExactTierCandidates ==
    /\ v_seq # <<>> => possible_substrings(v_seq, cdr3_seq) = ExactCandidates(v_seq, cdr3_seq)
    /\ \A k \in 1..Len(v_runs) :
           LET cands == ExactCandidates(v_seq, cdr3_seq)
           IN  IF cands # {}
               THEN /\ v_runs[k].tier = 1
                    /\ v_runs[k].match \in cands
                    /\ \A s \in cands : Len(s) <= Len(v_runs[k].match)
               ELSE v_runs[k].tier = 2

\* a call decided by the alignment tier although v_seq and cdr3 share a
\* C-anchored string before the last 20 characters of v_seq
C8_Witness ==
    /\ Len(v_runs) >= 1
    /\ v_runs[1].tier = 2
    /\ ExactCandidates(v_seq, cdr3_seq) = {}
    /\ \E s \in Substrings(cdr3_seq) :
           s[1] = "C" /\ Len(s) >= 2 /\ Occurrences(v_seq, s) # {}

\* C10: a successful call, in either tier, returns a proper prefix of v_seq and
\* the removed remainder begins with 'C'; a v_seq with no 'C' in its last 20
\* characters fails.
C10_RemainderStartsWithAnchor ==
    \A k \in 1..Len(v_runs) :
        /\ v_runs[k].ok =>
               /\ Len(v_runs[k].ret) < Len(v_seq)
               /\ SubSeq(v_seq, 1, Len(v_runs[k].ret)) = v_runs[k].ret
               /\ v_seq[Len(v_runs[k].ret) + 1] = "C"
        /\ (\A p \in 1..Len(v_seq) : p > Len(v_seq) - 20 => v_seq[p] # "C") =>
               ~v_runs[k].ok /\ v_runs[k].ret = NA

\* a call that the alignment tier decided successfully
C10_Witness ==
    /\ Len(v_runs) >= 1
    /\ v_runs[1].ok
    /\ v_runs[1].tier = 2
    /\ v_runs[1].ret # <<>>

(***************************************************************************)
(* Claims about full_region_gen (checked under Spec).                      *)
(***************************************************************************)
\* number of rows of a table that carry the index k
RowsWithIndex(table, k) ==
    Cardinality({n \in 1..Len(table) : table[n].index = k})

EndsWithC(s) == s # <<>> /\ s[Len(s)] = "C"

HasAdjacentCC(s) == \E p \in 1..(Len(s) - 1) : s[p] = "C" /\ s[p + 1] = "C"

\* C1: in every returned record V_CDR3_J_Sequence is V_AA_Trimmed, then CDR3,
\* then J_AA_Trimmed of that record, with nothing inserted or dropped.
C1_ConcatenationInvariant ==
    \A k \in 1..Len(result) :
        LET full == result[k].V_CDR3_J_Sequence
            v == result[k].V_AA_Trimmed
            c == result[k].CDR3
            j == result[k].J_AA_Trimmed
        IN  /\ Len(full) = Len(v) + Len(c) + Len(j)
            /\ SubSeq(full, 1, Len(v)) = v
            /\ SubSeq(full, Len(v) + 1, Len(v) + Len(c)) = c
            /\ SubSeq(full, Len(v) + Len(c) + 1, Len(full)) = j
            /\ v = v_trim_list[result[k].index]
            /\ c = vj[result[k].index].CDR3
            /\ j = j_trim_list[result[k].index]

\* full_region_gen has returned a record whose three parts are all non-empty
C1_Witness ==
    /\ pc = "done"
    /\ \E k \in 1..Len(result) :
           /\ result[k].V_AA_Trimmed # <<>>
           /\ result[k].J_AA_Trimmed # <<>>
           /\ result[k].V_AA_Trimmed # result[k].V_AA_Seq

\* C2: once full_region_gen has returned, every input record is in exactly one
\* of the returned table and dropout_threading.
C2_ExactlyOneOutput ==
    pc = "done" =>
        \A k \in 1..Len(vj) :
            RowsWithIndex(result, k) + RowsWithIndex(dropout_threading, k) = 1

\* full_region_gen has returned with records in both outputs
C2_Witness ==
    /\ pc = "done"
    /\ result # <<>>
    /\ dropout_threading # <<>>

\* C3: a record is returned iff both trims succeeded on it, and quarantined
\* iff at least one failed, whatever the trimmed strings are.
C3_SuccessIffBothTrimsSucceed ==
    pc = "done" =>
        \A k \in 1..Len(vj) :
            /\ RowsWithIndex(result, k) = 1 <=> (calls[k].v_ok /\ calls[k].j_ok)
            /\ RowsWithIndex(dropout_threading, k) = 1 <=> ~(calls[k].v_ok /\ calls[k].j_ok)

\* C6 as claimed: in every returned record whose CDR3 starts with 'C',
\* V_AA_Trimmed does not end in 'C'.
C6_TrimmedVNeverEndsInC ==
    \A k \in 1..Len(result) :
        result[k].CDR3[1] = "C" => ~EndsWithC(result[k].V_AA_Trimmed)

\* C6 as amended: in every returned record whose CDR3 starts with 'C' and
\* whose V segment has no two adjacent 'C', V_AA_Trimmed does not end in 'C'.
C6_TrimmedVEndsInCOnlyBeforeCC ==
    \A k \in 1..Len(result) :
        (result[k].CDR3[1] = "C" /\ ~HasAdjacentCC(result[k].V_AA_Seq)) =>
            ~EndsWithC(result[k].V_AA_Trimmed)

\* a returned record with a C-starting CDR3, a V segment without adjacent 'C'
\* and a non-empty trimmed V
C6_Witness ==
    /\ pc = "done"
    /\ \E k \in 1..Len(result) :
           /\ result[k].CDR3[1] = "C"
           /\ ~HasAdjacentCC(result[k].V_AA_Seq)
           /\ result[k].V_AA_Trimmed # <<>>

====
